---- MODULE Spec2Model ----
(***************************************************************************)
(* Model of the image-processing server of etsyflow (src/server.js): the   *)
(* in-memory job map, the upload intake, the three-stage pipeline          *)
(* processImageWithNanoBanana (Gemini generation, Picsart background       *)
(* removal, Picsart upscaling) raced against the 28-second job timer, and  *)
(* the status and download endpoints; and of its browser clients           *)
(* (src/script.js, src/public/app-async.js): the image list, the runs of   *)
(* processAllImages and repromptImage, and the status polling.             *)
(*                                                                         *)
(* One action is one turn of the Node.js event loop: a request handler or  *)
(* the continuation of an awaited call, together with every promise        *)
(* reaction (microtask) it triggers.                                       *)
(***************************************************************************)
EXTENDS Integers, Sequences, FiniteSets, TLC

\* ------------------------------------------------------------------ bounds
MaxJobs == 1          \* jobs created in one behaviour
MaxCandidates == 2    \* candidates in a Gemini response
MaxParts == 2         \* parts in one candidate
MaxBatch == 2         \* files in one batch request
TextChars == 120      \* characters of one text part of a Gemini response
MaxImages == 2        \* images added to the page
MaxRuns == 2          \* calls of processAllImages and repromptImage
MaxPolls == 2         \* status fetches of a run answered 'in progress'

VARIABLES
    PICSART_API_KEY,    \* TRUE iff process.env.PICSART_API_KEY is set
    GEMINI_API_KEY,     \* TRUE iff a Gemini key is set
    ENABLE_BG_REMOVAL,  \* feature flag
    processingJobs,     \* the Map jobId -> job record
    run,                \* per job: the locals of processImageWithNanoBanana
    calls,              \* per job: the external stage calls made so far
    files,              \* the files that exist in PROCESSED_DIR
    reply,              \* the answer to the last HTTP request
    images,             \* script.js: this.images of the ImageProcessor
    currentPrompt,      \* script.js: this.currentPrompt
    runs,               \* script.js: the calls of processAllImages and
                        \* repromptImage made so far, with their locals
    asyncPoll           \* app-async.js: one call of pollJobStatus

vars == <<PICSART_API_KEY, GEMINI_API_KEY, ENABLE_BG_REMOVAL,
          processingJobs, run, calls, files, reply,
          images, currentPrompt, runs, asyncPoll>>

env == <<PICSART_API_KEY, GEMINI_API_KEY, ENABLE_BG_REMOVAL>>

\* The state of the server and the state of the page in the browser
server == <<env, processingJobs, run, calls, files, reply>>
browser == <<images, currentPrompt, runs, asyncPoll>>

\* ------------------------------------------------------------ plain values
NoPath == [job |-> 0, name |-> <<>>]
NoMessage == <<>>

\* geminiFilename: gemini_<time>_<basename of the upload>.png
GeminiPath(jobId) == [job |-> jobId, name |-> <<"gemini">>]

\* bg_removed_<time>_<basename(imagePath)>
BgRemovedOutputPath(imagePath) ==
    [job |-> imagePath.job, name |-> <<"bg_removed">> \o imagePath.name]

\* upscaled_<time>_<basename(imagePath)>
UpscaledOutputPath(imagePath) ==
    [job |-> imagePath.job, name |-> <<"upscaled">> \o imagePath.name]

completedStatuses ==
    {"complete", "pipeline_complete", "partial_pipeline_success",
     "picsart_failed_fallback"}

\* ------------------------------------------------------- inputs (bounded)
\* Outcomes of the upload middleware
UploadOutcomes == {"ok", "LIMIT_FILE_SIZE", "not_image", "no_file"}

\* Values of the request field removeBg (Absent: the field is not sent)
Absent == "<absent>"

RemoveBgFields == {Absent, "", "true", "TRUE", "false", "0"}

\* A candidate is its sequence of parts; a part is an image or a text part
PartKinds == {"image", "text"}

SeqsUpTo(S, n) == UNION {[1..k -> S] : k \in 0..n}

Candidates == SeqsUpTo(PartKinds, MaxParts)

\* What the Gemini call settles with: a rejection or a response body
GeminiRejections == {"ECONNABORTED", "401", "403", "400", "other"}

GeminiReplies ==
    [kind : {"reject"}, code : GeminiRejections, candidates : {<<>>}]
    \cup [kind : {"response"}, code : {"200"},
          candidates : SeqsUpTo(Candidates, MaxCandidates)]

NoReply == [kind |-> "none", code |-> "", candidates |-> <<>>]

\* How a Picsart request can fail: an HTTP error response, a refused
\* connection, or any other error carrying a message
PicsartFailures == {"http", "network", "error"}

\* ------------------------------------------------------------- messages
\* Error messages are kept as the sequence of their pieces.
TimeoutMessage == <<"Job timed out after 28 seconds (Vercel function limit)">>

\* The .catch of the Gemini request: the Error it rethrows
GeminiRejectionMessage(code) ==
    CASE code = "ECONNABORTED" ->
           <<"Gemini API request timed out after 25 seconds (Vercel function limit)">>
      [] code = "401" ->
           <<"Invalid API key - please check GEMINI_API_KEY in Vercel dashboard">>
      [] code = "403" ->
           <<"API key is valid but lacks permissions or quota exceeded">>
      [] code = "400" -> <<"Gemini API error: ", "Invalid request">>
      [] OTHER -> <<"Request failed">>

\* The catch of processPicsartBackgroundRemoval / processPicsartUpscaling:
\* every failure becomes one Error with a descriptive message
PicsartErrorMessage(prefix, failure) ==
    CASE failure = "http" -> <<prefix, " (HTTP ", "status", ")">>
      [] failure = "network" -> <<prefix, ": Network connection failed">>
      [] OTHER -> <<prefix, ": ", "message">>

\* The catch at the end of processingPromise
WrapProcessingError(message) == <<"Image processing failed: ">> \o message

\* ------------------------------------------------------------ job records
\* imageData as built by POST /api/process-image; statusLog lists every
\* value assigned to status, in order. Time is counted in writes of the
\* status: lastUpdated is the length statusLog had when updateJobStatus last
\* wrote the record (0: the field is not there).
NewJob(removeBg) ==
    [status |-> "processing",
     statusLog |-> <<"processing">>,
     lastUpdated |-> 0,
     removeBg |-> removeBg,
     geminiPath |-> NoPath,
     geminiDownloadPath |-> NoPath,
     processedPath |-> NoPath,
     pipelineErrors |-> <<>>,
     error |-> NoMessage]

\* The locals of one call of processImageWithNanoBanana
NewRun ==
    [pc |-> "start",
     timer |-> "pending",
     race |-> "pending",
     data |-> NoReply,
     generatedImageData |-> 0,
     geminiPath |-> NoPath,
     finalProcessedPath |-> NoPath,
     bgRemovedPath |-> NoPath,
     pipelineErrors |-> <<>>]

\* job.status = status
SetStatus(job, status) ==
    [job EXCEPT !.status = status, !.statusLog = Append(@, status)]

\* Object.assign(job, additionalData)
Assign(job, additionalData) ==
    [f \in DOMAIN job |->
        IF f \in DOMAIN additionalData THEN additionalData[f] ELSE job[f]]

\* job.lastUpdated = new Date()
Touch(job) == [job EXCEPT !.lastUpdated = Len(job.statusLog)]

\* updateJobStatus, on the context c = [job, run, calls, files] of one job
updateJobStatus(c, status, additionalData) ==
    [c EXCEPT !.job = Assign(Touch(SetStatus(@, status)), additionalData)]

\* ------------------------------------------- the race and its reactions
\* A then handler that stores the final artifact and leaves the status as
\* the run set it
OnResolved_KeepsStatus(c) ==
    IF c.run.race = "pending"
    THEN [c EXCEPT !.run.race = "resolved",
                   !.job.processedPath = c.run.finalProcessedPath]
    ELSE c

\* processImageWithNanoBanana(..).then(..) of the intake handler, reached
\* when Promise.race settles with the pipeline's result
OnResolved(c) ==
    IF c.run.race = "pending"
    THEN [c EXCEPT !.run.race = "resolved",
                   !.job = [SetStatus(@, "complete")
                               EXCEPT !.processedPath = c.run.finalProcessedPath]]
    ELSE c

\* A rejection that is acted upon even when the race has been settled
OnRejected_AfterSettled(c, message) ==
    LET d == updateJobStatus([c EXCEPT !.run.race = "rejected"],
                             "error", [error |-> message])
    IN [d EXCEPT !.job = [SetStatus(@, "error") EXCEPT !.error = message]]

\* The catch around Promise.race, then the .catch of the intake handler
OnRejected(c, message) ==
    IF c.run.race = "pending"
    THEN LET d == updateJobStatus([c EXCEPT !.run.race = "rejected"],
                                  "error", [error |-> message])
         IN [d EXCEPT !.job = [SetStatus(@, "error") EXCEPT !.error = message]]
    ELSE c

\* The pipeline's own catch: processingPromise rejects
PipelineThrows(c, message) ==
    OnRejected([c EXCEPT !.run.pc = "threw"], WrapProcessingError(message))

\* ---------------------------------------------------- pipeline fragments
\* Milliseconds: the job timer, the timeout option of the Gemini request,
\* and axios' default for a request without a timeout option (none)
JobTimeout == 28000
GeminiTimeout == 25000
NoTimeout == 0

\* The timeout option a stage call is made with: only the Gemini request
\* passes one; the two Picsart requests are made without
CallTimeout(api) == IF api = "gemini" THEN GeminiTimeout ELSE NoTimeout

\* The record of an external call that has just been started
NewCall(api, input) ==
    [api |-> api, input |-> input, timeout |-> CallTimeout(api),
     result |-> "pending"]

\* The last call of the job settles
CallSettled(c, result) ==
    [c EXCEPT !.calls[Len(c.calls)].result = result]

\* "Update final status based on what succeeded" and the return
FinalStatus(n) ==
    IF n = 0 THEN "pipeline_complete"
    ELSE IF n = 1 THEN "partial_pipeline_success"
    ELSE "picsart_failed_fallback"

Finish(c) ==
    LET n == Len(c.run.pipelineErrors)
        d == IF n = 0
             THEN updateJobStatus(c, FinalStatus(n), <<>>)
             ELSE updateJobStatus(c, FinalStatus(n),
                                  [pipelineErrors |-> c.run.pipelineErrors])
    IN OnResolved([d EXCEPT !.run.pc = "returned"])

\* Faulty Step 2: upscaling is called whether or not the key is set
StartStep2_NoKeyCheck(c) ==
    LET d == updateJobStatus(c, "upscaling_image", <<>>)
    IN [d EXCEPT !.run.pc = "up_post",
                 !.calls = Append(@, NewCall("upscale",
                                             c.run.finalProcessedPath))]

\* Step 2 up to its await
StartStep2(c) ==
    IF PICSART_API_KEY
    THEN LET d == updateJobStatus(c, "upscaling_image", <<>>)
         IN [d EXCEPT !.run.pc = "up_post",
                      !.calls = Append(@, NewCall("upscale",
                                                  c.run.finalProcessedPath))]
    ELSE Finish(c)

\* Faulty Step 1: background removal is started but not awaited
StartStep1_NoAwait(c) ==
    IF c.job.removeBg /\ PICSART_API_KEY
    THEN LET d == updateJobStatus(c, "removing_background", <<>>)
         IN StartStep2([d EXCEPT
                !.calls = Append(@, NewCall("removebg", c.run.geminiPath)),
                !.run.finalProcessedPath = c.run.geminiPath])
    ELSE StartStep2([c EXCEPT !.run.bgRemovedPath = c.run.geminiPath,
                              !.run.finalProcessedPath = c.run.geminiPath])

\* Step 1 up to its await
StartStep1(c) ==
    IF c.job.removeBg /\ PICSART_API_KEY
    THEN LET d == updateJobStatus(c, "removing_background", <<>>)
         IN [d EXCEPT !.run.pc = "bg_post",
                      !.calls = Append(@, NewCall("removebg", c.run.geminiPath))]
    ELSE StartStep2([c EXCEPT !.run.bgRemovedPath = c.run.geminiPath,
                              !.run.finalProcessedPath = c.run.geminiPath])

\* Faulty Step 1: the failure is caught but not pushed to pipelineErrors
BgRemovalFailed_NotRecorded(c, failure) ==
    LET d == CallSettled(c, "failed")
    IN StartStep2([d EXCEPT
           !.run.bgRemovedPath = c.run.geminiPath,
           !.run.finalProcessedPath = c.run.geminiPath])

\* Faulty Step 1: the error of background removal is not caught
BgRemovalFailed_Rethrows(c, failure) ==
    PipelineThrows(CallSettled(c, "failed"),
                   PicsartErrorMessage("Background removal failed", failure))

\* catch (bgError)
BgRemovalFailed(c, failure) ==
    LET message == PicsartErrorMessage("Background removal failed", failure)
        d == CallSettled(c, "failed")
    IN StartStep2([d EXCEPT
           !.run.pipelineErrors =
               Append(@, [stage |-> "Background removal", message |-> message]),
           !.run.bgRemovedPath = c.run.geminiPath,
           !.run.finalProcessedPath = c.run.geminiPath])

\* Faulty Step 1: the output of background removal is written but the
\* generated image stays the input of what follows
BgRemovalSucceeded_KeepsGenerated(c) ==
    LET outputPath == BgRemovedOutputPath(c.run.geminiPath)
        d == CallSettled(c, "ok")
    IN StartStep2([d EXCEPT !.files = @ \cup {outputPath},
                            !.run.bgRemovedPath = outputPath,
                            !.run.finalProcessedPath = c.run.geminiPath])

\* processPicsartBackgroundRemoval returns outputPath
BgRemovalSucceeded(c) ==
    LET outputPath == BgRemovedOutputPath(c.run.geminiPath)
        d == CallSettled(c, "ok")
    IN StartStep2([d EXCEPT !.files = @ \cup {outputPath},
                            !.run.bgRemovedPath = outputPath,
                            !.run.finalProcessedPath = outputPath])

\* Faulty Step 2: a failed upscaling is attempted once more
UpscalingFailed_Retries(c, failure) ==
    LET d == CallSettled(c, "failed")
    IN [d EXCEPT !.run.pc = "up_post",
                 !.calls = Append(@, NewCall("upscale",
                                             c.run.finalProcessedPath))]

\* catch (upscaleError)
UpscaleCaught(c, message) ==
    Finish([c EXCEPT !.run.pipelineErrors =
                 Append(@, [stage |-> "Upscaling", message |-> message])])

\* Faulty Step 2: the intermediate file is cleaned up when upscaling failed
UpscalingFailed_CleansUp(c, failure) ==
    UpscaleCaught([CallSettled(c, "failed") EXCEPT
                      !.files = IF c.run.bgRemovedPath # c.run.geminiPath
                                THEN @ \ {c.run.bgRemovedPath} ELSE @],
                  PicsartErrorMessage("Image upscaling failed", failure))

UpscalingFailed(c, failure) ==
    UpscaleCaught(CallSettled(c, "failed"),
                  PicsartErrorMessage("Image upscaling failed", failure))

\* Faulty cleanup: the intermediate is unlinked even when it is the
\* generated file
UpscalingSucceeded_UnlinksGenerated(c, unlinkOk) ==
    LET upscaledPath == UpscaledOutputPath(c.run.finalProcessedPath)
        d == [CallSettled(c, "ok") EXCEPT !.files = @ \cup {upscaledPath}]
        cleanup == /\ c.run.bgRemovedPath # NoPath
                   /\ c.run.bgRemovedPath \in c.files
    IN IF cleanup /\ ~unlinkOk
       THEN UpscaleCaught(d, <<"unlink failed">>)
       ELSE Finish([d EXCEPT
                !.files = IF cleanup THEN @ \ {c.run.bgRemovedPath} ELSE @,
                !.run.finalProcessedPath = upscaledPath])

\* processPicsartUpscaling returns upscaledPath; the intermediate file is
\* cleaned up (unlinkSync may throw, inside the try of Step 2)
UpscalingSucceeded(c, unlinkOk) ==
    LET upscaledPath == UpscaledOutputPath(c.run.finalProcessedPath)
        d == [CallSettled(c, "ok") EXCEPT !.files = @ \cup {upscaledPath}]
        cleanup == /\ c.run.bgRemovedPath # NoPath
                   /\ c.run.bgRemovedPath # c.run.geminiPath
                   /\ c.run.bgRemovedPath \in c.files
    IN IF cleanup /\ ~unlinkOk
       THEN UpscaleCaught(d, <<"unlink failed">>)
       ELSE Finish([d EXCEPT
                !.files = IF cleanup THEN @ \ {c.run.bgRemovedPath} ELSE @,
                !.run.finalProcessedPath = upscaledPath])

\* ------------------------------------------------------- the generation
UploadPath(jobId) == [job |-> jobId, name |-> <<"upload">>]

\* (req.body.removeBg || '').toString().toLowerCase()
removeBgRaw(field) ==
    CASE field = Absent -> ""
      [] field = "TRUE" -> "true"
      [] OTHER -> field

\* A flag that is on only when asked for, whatever ENABLE_BG_REMOVAL is
removeBg_OnlyOnRequest(field) == removeBgRaw(field) = "true"

\* removeBgRaw === 'true' || (removeBgRaw === '' && ENABLE_BG_REMOVAL)
removeBg(field) ==
    \/ removeBgRaw(field) = "true"
    \/ (removeBgRaw(field) = "" /\ ENABLE_BG_REMOVAL)

\* processImageWithNanoBanana up to the await of the Gemini request
StartPipeline(c, jobId, readOk) ==
    LET d == updateJobStatus(c, "gemini_processing", <<>>)
    IN IF ~readOk
       THEN PipelineThrows(d, <<"ENOENT: no such file or directory">>)
       ELSE IF ~GEMINI_API_KEY
       THEN PipelineThrows(d,
              <<"GEMINI_API_KEY (or GOOGLE_API_KEY) environment variable is not set">>)
       ELSE [d EXCEPT !.run.pc = "gemini_post",
                      !.calls = Append(@, NewCall("gemini", UploadPath(jobId)))]

\* Faulty filter: every part counts as an image part
imageParts_AnyPart(parts) == parts

\* parts.filter(part => part.inlineData && part.inlineData.data)
imageParts(parts) == SelectSeq(parts, LAMBDA part : part = "image")

\* parts.filter(part => part.text)
textParts(parts) == SelectSeq(parts, LAMBDA part : part = "text")

\* The length of textParts.map(part => part.text).join(' ')
RECURSIVE JoinedLength(_)
JoinedLength(texts) ==
    IF Len(texts) = 0 THEN 0
    ELSE IF Len(texts) = 1 THEN TextChars
    ELSE TextChars + 1 + JoinedLength(Tail(texts))

\* The number of characters that text.substring(0, 200) keeps
SubstringLimit == 200

Substring(chars, limit) == IF chars < limit THEN chars ELSE limit

\* A refusal message that carries the whole text
RefusalMessage_Untruncated(parts) ==
    <<"Image generation failed. Gemini response: ",
      JoinedLength(textParts(parts)), "...">>

\* The message of the Error thrown for a response without an image; the
\* text it quotes is kept as its number of characters
RefusalMessage(parts) ==
    <<"Image generation failed. Gemini response: ",
      Substring(JoinedLength(textParts(parts)), SubstringLimit), "...">>

\* imageParts[0], as the position of that part among the parts
FirstImagePart(parts) ==
    LET first == imageParts(parts)[1]
    IN CHOOSE i \in 1..Len(parts) :
          /\ parts[i] = first
          /\ \A j \in 1..(i - 1) : parts[j] # first

\* A candidate check that looks at the last candidate of the response
GeminiSettled_LastCandidate(c, data) ==
    LET d == [c EXCEPT !.run.data = data]
    IN IF data.kind = "reject"
       THEN PipelineThrows(CallSettled(d, "failed"),
                           GeminiRejectionMessage(data.code))
       ELSE LET e == CallSettled(d, "ok")
            IN IF Len(data.candidates) = 0
               THEN PipelineThrows(e, <<"No candidates returned from Gemini API">>)
               ELSE LET parts == data.candidates[Len(data.candidates)]
                    IN IF Len(imageParts(parts)) > 0
                       THEN [e EXCEPT !.run.pc = "gemini_png",
                                      !.run.generatedImageData =
                                          FirstImagePart(parts)]
                       ELSE IF Len(textParts(parts)) > 0
                       THEN PipelineThrows(e, RefusalMessage(parts))
                       ELSE PipelineThrows(e,
                              <<"No image or text response received from Gemini API">>)

\* The Gemini request settles: the .catch of the request, the candidate
\* check and the search for an image part, up to the await of sharp
\* (generatedImageData: the part whose data is taken)
GeminiSettled(c, data) ==
    LET d == [c EXCEPT !.run.data = data]
    IN IF data.kind = "reject"
       THEN PipelineThrows(CallSettled(d, "failed"),
                           GeminiRejectionMessage(data.code))
       ELSE LET e == CallSettled(d, "ok")
            IN IF Len(data.candidates) = 0
               THEN PipelineThrows(e, <<"No candidates returned from Gemini API">>)
               ELSE LET parts == data.candidates[1]
                    IN IF Len(imageParts(parts)) > 0
                       THEN [e EXCEPT !.run.pc = "gemini_png",
                                      !.run.generatedImageData =
                                          FirstImagePart(parts)]
                       ELSE IF Len(textParts(parts)) > 0
                       THEN PipelineThrows(e, RefusalMessage(parts))
                       ELSE PipelineThrows(e,
                              <<"No image or text response received from Gemini API">>)

\* sharp has converted the image: it is written, the job becomes
\* gemini_complete and the Picsart steps begin
GeminiSaved(c, jobId) ==
    LET geminiPath == GeminiPath(jobId)
        d == updateJobStatus(
               [c EXCEPT !.files = @ \cup {geminiPath},
                         !.run.data = NoReply,
                         !.run.generatedImageData = 0,
                         !.run.geminiPath = geminiPath],
               "gemini_complete",
               [geminiPath |-> geminiPath, geminiDownloadPath |-> geminiPath])
    IN StartStep1([d EXCEPT !.run.finalProcessedPath = geminiPath])

\* ------------------------------------------------------------------ state
Context(jobId) ==
    [job |-> processingJobs[jobId], run |-> run[jobId],
     calls |-> calls[jobId], files |-> files]

\* A step that writes the record of the job created last, whatever job made it
Becomes_LatestJob(jobId, c) ==
    /\ processingJobs' = [processingJobs EXCEPT ![Len(processingJobs)] = c.job]
    /\ run' = [run EXCEPT ![jobId] = c.run]
    /\ calls' = [calls EXCEPT ![jobId] = c.calls]
    /\ files' = c.files

\* The step of one job: its record, run and calls, and the files
Becomes(jobId, c) ==
    /\ processingJobs' = [processingJobs EXCEPT ![jobId] = c.job]
    /\ run' = [run EXCEPT ![jobId] = c.run]
    /\ calls' = [calls EXCEPT ![jobId] = c.calls]
    /\ files' = c.files

\* An answer of the server: the endpoint and the response it sent
Answer(endpoint, code, error) ==
    [endpoint |-> endpoint, response |-> [code |-> code, error |-> error]]

NoAnswer == Answer("none", 0, "")

\* An image that has no job yet
NoJobId == [run |-> 0, image |-> 0]

\* app-async.js: pollJobStatus has not been called
NoPoll == [pc |-> "idle", retries |-> 0, fetches |-> 0, status |-> "processing"]

\* The page after new ImageProcessor(): no image, no prompt, nothing running
PageLoaded ==
    /\ images = <<>>
    /\ currentPrompt = ""
    /\ runs = <<>>
    /\ asyncPoll = NoPoll

Init ==
    /\ PICSART_API_KEY \in BOOLEAN
    /\ GEMINI_API_KEY \in BOOLEAN
    /\ ENABLE_BG_REMOVAL \in BOOLEAN
    /\ processingJobs = <<>>
    /\ run = <<>>
    /\ calls = <<>>
    /\ files = {}
    /\ reply = NoAnswer
    /\ PageLoaded

\* --------------------------------------------------------------- actions
\* An intake that creates the job before it looks at the upload
ProcessImage_CreatesJobFirst(upload, field, readOk) ==
    LET jobId == Len(processingJobs) + 1
        c == StartPipeline([job |-> NewJob(removeBg(field)), run |-> NewRun,
                            calls |-> <<>>, files |-> files], jobId, readOk)
    IN /\ UNCHANGED <<env, browser>>
       /\ processingJobs' = Append(processingJobs, c.job)
       /\ run' = Append(run, c.run)
       /\ calls' = Append(calls, c.calls)
       /\ files' = c.files
       /\ reply' = IF upload = "LIMIT_FILE_SIZE"
                   THEN Answer("process-image", 413, "File too large (max 10MB)")
                   ELSE IF upload = "not_image"
                   THEN Answer("process-image", 400, "Only image files are allowed")
                   ELSE IF upload = "no_file"
                   THEN Answer("process-image", 400, "No image file provided")
                   ELSE Answer("process-image", 200, "")

\* POST /api/process-image
ProcessImage(upload, field, readOk) ==
    /\ UNCHANGED <<env, browser>>
    /\ IF upload = "LIMIT_FILE_SIZE"
       THEN /\ reply' = Answer("process-image", 413, "File too large (max 10MB)")
            /\ UNCHANGED <<processingJobs, run, calls, files>>
       ELSE IF upload = "not_image"
       THEN /\ reply' = Answer("process-image", 400, "Only image files are allowed")
            /\ UNCHANGED <<processingJobs, run, calls, files>>
       ELSE IF upload = "no_file"
       THEN /\ reply' = Answer("process-image", 400, "No image file provided")
            /\ UNCHANGED <<processingJobs, run, calls, files>>
       ELSE LET jobId == Len(processingJobs) + 1
                c == StartPipeline([job |-> NewJob(removeBg(field)),
                                    run |-> NewRun, calls |-> <<>>,
                                    files |-> files], jobId, readOk)
            IN /\ processingJobs' = Append(processingJobs, c.job)
               /\ run' = Append(run, c.run)
               /\ calls' = Append(calls, c.calls)
               /\ files' = c.files
               /\ reply' = Answer("process-image", 200, "")

\* The Gemini request of a job settles
GeminiResponse(jobId, data) ==
    /\ run[jobId].pc = "gemini_post"
    /\ Becomes(jobId, GeminiSettled(Context(jobId), data))
    /\ UNCHANGED <<env, reply, browser>>

\* The PNG conversion of the generated image settles
GeminiPng(jobId, ok) ==
    /\ run[jobId].pc = "gemini_png"
    /\ Becomes(jobId, IF ok THEN GeminiSaved(Context(jobId), jobId)
                      ELSE PipelineThrows(Context(jobId),
                                          <<"Input buffer contains unsupported image format">>))
    /\ UNCHANGED <<env, reply, browser>>

\* processPicsartBackgroundRemoval: the removebg request settles
BgPost(jobId, outcome) ==
    /\ run[jobId].pc = "bg_post"
    /\ Becomes(jobId,
         IF outcome = "url" THEN [Context(jobId) EXCEPT !.run.pc = "bg_get"]
         ELSE IF outcome = "nourl" THEN BgRemovalFailed(Context(jobId), "error")
         ELSE BgRemovalFailed(Context(jobId), outcome))
    /\ UNCHANGED <<env, reply, browser>>

\* processPicsartBackgroundRemoval: the download of the result settles
BgGet(jobId, outcome) ==
    /\ run[jobId].pc = "bg_get"
    /\ Becomes(jobId,
         IF outcome = "ok" THEN [Context(jobId) EXCEPT !.run.pc = "bg_png"]
         ELSE BgRemovalFailed(Context(jobId), outcome))
    /\ UNCHANGED <<env, reply, browser>>

\* processPicsartBackgroundRemoval: the PNG conversion settles, the file
\* is written
BgPng(jobId, ok) ==
    /\ run[jobId].pc = "bg_png"
    /\ Becomes(jobId, IF ok THEN BgRemovalSucceeded(Context(jobId))
                      ELSE BgRemovalFailed(Context(jobId), "error"))
    /\ UNCHANGED <<env, reply, browser>>

\* processPicsartUpscaling: the upscale request settles
UpPost(jobId, outcome) ==
    /\ run[jobId].pc = "up_post"
    /\ Becomes(jobId,
         IF outcome = "url" THEN [Context(jobId) EXCEPT !.run.pc = "up_get"]
         ELSE IF outcome = "nourl" THEN UpscalingFailed(Context(jobId), "error")
         ELSE UpscalingFailed(Context(jobId), outcome))
    /\ UNCHANGED <<env, reply, browser>>

\* processPicsartUpscaling: the download of the result settles
UpGet(jobId, outcome) ==
    /\ run[jobId].pc = "up_get"
    /\ Becomes(jobId,
         IF outcome = "ok" THEN [Context(jobId) EXCEPT !.run.pc = "up_png"]
         ELSE UpscalingFailed(Context(jobId), outcome))
    /\ UNCHANGED <<env, reply, browser>>

\* processPicsartUpscaling: the PNG conversion settles, the file is
\* written, and Step 2 cleans up
UpPng(jobId, ok, unlinkOk) ==
    /\ run[jobId].pc = "up_png"
    /\ Becomes(jobId, IF ok THEN UpscalingSucceeded(Context(jobId), unlinkOk)
                      ELSE UpscalingFailed(Context(jobId), "error"))
    /\ UNCHANGED <<env, reply, browser>>

\* The 28-second timer of a job fires: timeoutPromise rejects
TimerFires(jobId) ==
    /\ run[jobId].timer = "pending"
    /\ Becomes(jobId, OnRejected([Context(jobId) EXCEPT !.run.timer = "fired"],
                                 TimeoutMessage))
    /\ UNCHANGED <<env, reply, browser>>

Jobs == DOMAIN processingJobs

Next ==
    \/ \E upload \in UploadOutcomes, field \in RemoveBgFields, readOk \in BOOLEAN :
          /\ Len(processingJobs) < MaxJobs
          /\ ProcessImage(upload, field, readOk)
    \/ \E jobId \in Jobs, data \in GeminiReplies : GeminiResponse(jobId, data)
    \/ \E jobId \in Jobs, ok \in BOOLEAN : GeminiPng(jobId, ok)
    \/ \E jobId \in Jobs, outcome \in {"url", "nourl"} \cup PicsartFailures :
          BgPost(jobId, outcome)
    \/ \E jobId \in Jobs, outcome \in {"ok"} \cup PicsartFailures :
          BgGet(jobId, outcome)
    \/ \E jobId \in Jobs, ok \in BOOLEAN : BgPng(jobId, ok)
    \/ \E jobId \in Jobs, outcome \in {"url", "nourl"} \cup PicsartFailures :
          UpPost(jobId, outcome)
    \/ \E jobId \in Jobs, outcome \in {"ok"} \cup PicsartFailures :
          UpGet(jobId, outcome)
    \/ \E jobId \in Jobs, ok \in BOOLEAN, unlinkOk \in BOOLEAN :
          UpPng(jobId, ok, unlinkOk)
    \/ \E jobId \in Jobs : TimerFires(jobId)

Spec == Init /\ [][Next]_vars

\* ------------------------------------------------- several jobs at once
\* POST /api/process-batch with n files: one job per file, each started at
\* once, in the order of the files
RECURSIVE StartJobs(_, _, _)
StartJobs(w, n, removeBgFlag) ==
    IF n = 0 THEN w
    ELSE LET jobId == Len(w.jobs) + 1
             c == StartPipeline([job |-> NewJob(removeBgFlag), run |-> NewRun,
                                 calls |-> <<>>, files |-> w.files],
                                jobId, TRUE)
         IN StartJobs([jobs |-> Append(w.jobs, c.job),
                       runs |-> Append(w.runs, c.run),
                       calls |-> Append(w.calls, c.calls),
                       files |-> c.files],
                      n - 1, removeBgFlag)

ProcessBatch(upload, n, field) ==
    /\ UNCHANGED <<env, browser>>
    /\ IF upload = "LIMIT_FILE_SIZE"
       THEN /\ reply' = Answer("process-batch", 413,
                                "One or more files too large (max 10MB each)")
            /\ UNCHANGED <<processingJobs, run, calls, files>>
       ELSE IF upload = "not_image"
       THEN /\ reply' = Answer("process-batch", 400, "Only image files are allowed")
            /\ UNCHANGED <<processingJobs, run, calls, files>>
       ELSE IF upload = "no_file" \/ n = 0
       THEN /\ reply' = Answer("process-batch", 400, "No image files provided")
            /\ UNCHANGED <<processingJobs, run, calls, files>>
       ELSE LET w == StartJobs([jobs |-> processingJobs, runs |-> run,
                                calls |-> calls, files |-> files],
                               n, removeBg(field))
            IN /\ processingJobs' = w.jobs
               /\ run' = w.runs
               /\ calls' = w.calls
               /\ files' = w.files
               /\ reply' = Answer("process-batch", 200, "")

\* The server with both keys set, serving one batch request; the requests
\* of its jobs answer with an image or a rejection (Gemini) and with a
\* result or an HTTP error (Picsart)
InitBatch ==
    /\ PICSART_API_KEY = TRUE
    /\ GEMINI_API_KEY = TRUE
    /\ ENABLE_BG_REMOVAL = TRUE
    /\ processingJobs = <<>>
    /\ run = <<>>
    /\ calls = <<>>
    /\ files = {}
    /\ reply = NoAnswer
    /\ PageLoaded

BatchGeminiReplies ==
    {[kind |-> "reject", code |-> "other", candidates |-> <<>>],
     [kind |-> "response", code |-> "200", candidates |-> << <<"image">> >>]}

NextBatch ==
    \/ \E upload \in UploadOutcomes, n \in 0..MaxBatch, field \in {Absent, "false"} :
          /\ Len(processingJobs) = 0
          /\ ProcessBatch(upload, n, field)
    \/ \E jobId \in Jobs, data \in BatchGeminiReplies : GeminiResponse(jobId, data)
    \/ \E jobId \in Jobs, ok \in BOOLEAN : GeminiPng(jobId, ok)
    \/ \E jobId \in Jobs, outcome \in {"url", "http"} : BgPost(jobId, outcome)
    \/ \E jobId \in Jobs, outcome \in {"ok", "http"} : BgGet(jobId, outcome)
    \/ \E jobId \in Jobs, ok \in BOOLEAN : BgPng(jobId, ok)
    \/ \E jobId \in Jobs, outcome \in {"url", "http"} : UpPost(jobId, outcome)
    \/ \E jobId \in Jobs, outcome \in {"ok", "http"} : UpGet(jobId, outcome)
    \/ \E jobId \in Jobs, ok \in BOOLEAN, unlinkOk \in BOOLEAN :
          UpPng(jobId, ok, unlinkOk)
    \/ \E jobId \in Jobs : TimerFires(jobId)

SpecBatch == InitBatch /\ [][NextBatch]_vars

\* ------------------------------------------------------------ endpoints
\* A lookup that takes a job whose run has ended to be gone
JobStatusResponse_ForgetsEnded(jobId) ==
    IF jobId \notin Jobs \/ processingJobs[jobId].status = "complete"
                         \/ processingJobs[jobId].status = "error"
    THEN [code |-> 404, status |-> "Job not found", processedUrl |-> FALSE,
          geminiUrl |-> FALSE, error |-> NoMessage]
    ELSE [code |-> 200, status |-> processingJobs[jobId].status,
          processedUrl |-> FALSE,
          geminiUrl |-> (processingJobs[jobId].geminiDownloadPath # NoPath),
          error |-> NoMessage]

\* GET /api/job/:jobId: the response body (a field that the handler
\* leaves out is FALSE, or NoMessage for error)
JobStatusResponse(jobId) ==
    IF jobId \notin Jobs
    THEN [code |-> 404, status |-> "Job not found", processedUrl |-> FALSE,
          geminiUrl |-> FALSE, error |-> NoMessage]
    ELSE LET job == processingJobs[jobId]
         IN [code |-> 200,
             status |-> job.status,
             processedUrl |-> (job.status \in completedStatuses
                               /\ job.processedPath # NoPath),
             geminiUrl |-> (job.geminiDownloadPath # NoPath),
             error |-> IF job.status = "error" THEN job.error ELSE NoMessage]

\* A download that falls back on the generated image when there is no
\* final artifact to serve
DownloadResponse_ServesGenerated(jobId) ==
    IF jobId \notin Jobs
    THEN [code |-> 404, error |-> "Processed image not found", file |-> NoPath]
    ELSE IF \/ processingJobs[jobId].status \notin completedStatuses
            \/ processingJobs[jobId].processedPath = NoPath
    THEN IF processingJobs[jobId].geminiDownloadPath \in files
         THEN [code |-> 200, error |-> "",
               file |-> processingJobs[jobId].geminiDownloadPath]
         ELSE [code |-> 404, error |-> "Processed image not found", file |-> NoPath]
    ELSE IF processingJobs[jobId].processedPath \notin files
    THEN [code |-> 404, error |-> "File not found on disk", file |-> NoPath]
    ELSE [code |-> 200, error |-> "", file |-> processingJobs[jobId].processedPath]

\* GET /api/download/:jobId: 404 or the file that is served
DownloadResponse(jobId) ==
    IF \/ jobId \notin Jobs
       \/ processingJobs[jobId].status \notin completedStatuses
       \/ processingJobs[jobId].processedPath = NoPath
    THEN [code |-> 404, error |-> "Processed image not found", file |-> NoPath]
    ELSE IF processingJobs[jobId].processedPath \notin files
    THEN [code |-> 404, error |-> "File not found on disk", file |-> NoPath]
    ELSE [code |-> 200, error |-> "", file |-> processingJobs[jobId].processedPath]

\* GET /api/download-gemini/:jobId: 404 or the file that is served
DownloadGeminiResponse(jobId) ==
    IF \/ jobId \notin Jobs
       \/ processingJobs[jobId].geminiDownloadPath = NoPath
    THEN [code |-> 404, error |-> "Gemini image not found", file |-> NoPath]
    ELSE IF processingJobs[jobId].geminiDownloadPath \notin files
    THEN [code |-> 404, error |-> "File not found on disk", file |-> NoPath]
    ELSE [code |-> 200, error |-> "",
          file |-> processingJobs[jobId].geminiDownloadPath]

\* The format query of a download request
FormatFields == {Absent, "", "png", "PNG", "jpg", "JPG", "jpeg", "gif"}

\* A format query that is compared as it was sent
requestedFormatRaw_CaseSensitive(format) ==
    IF format = Absent THEN "" ELSE format

\* (req.query.format || '').toString().toLowerCase()
requestedFormatRaw(format) ==
    CASE format = Absent -> ""
      [] format = "PNG" -> "png"
      [] format = "JPG" -> "jpg"
      [] OTHER -> format

requestedFormat(format) ==
    IF requestedFormatRaw(format) \in {"jpg", "jpeg", "png"}
    THEN requestedFormatRaw(format) ELSE "null"

\* The file of a download is sent: as it is when no format is requested,
\* converted to the requested format, or as it is (as an attachment) when
\* the conversion throws
SendImage(file, prefix, format, convertOk) ==
    LET fmt == requestedFormat(format)
    IN IF fmt = "null"
       THEN [code |-> 200, error |-> "", file |-> file, converted |-> FALSE,
             contentType |-> "image/png", attachment |-> <<>>]
       ELSE IF convertOk
       THEN [code |-> 200, error |-> "", file |-> file, converted |-> TRUE,
             contentType |-> IF fmt = "png" THEN "image/png" ELSE "image/jpeg",
             attachment |-> <<prefix, IF fmt = "jpeg" THEN "jpg" ELSE fmt>>]
       ELSE [code |-> 200, error |-> "", file |-> file, converted |-> FALSE,
             contentType |-> "image/png", attachment |-> <<prefix, "png">>]

\* GET /api/job/:jobId
GetJob(jobId) ==
    /\ reply' = [endpoint |-> "job", response |-> JobStatusResponse(jobId)]
    /\ UNCHANGED <<env, processingJobs, run, calls, files, browser>>

\* GET /api/download/:jobId
Download(jobId, format, convertOk) ==
    /\ reply' = [endpoint |-> "download",
                 response |-> IF DownloadResponse(jobId).code = 404
                              THEN DownloadResponse(jobId)
                              ELSE SendImage(DownloadResponse(jobId).file,
                                             "processed", format, convertOk)]
    /\ UNCHANGED <<env, processingJobs, run, calls, files, browser>>

\* GET /api/download-gemini/:jobId
DownloadGemini(jobId, format, convertOk) ==
    /\ reply' = [endpoint |-> "download-gemini",
                 response |-> IF DownloadGeminiResponse(jobId).code = 404
                              THEN DownloadGeminiResponse(jobId)
                              ELSE SendImage(DownloadGeminiResponse(jobId).file,
                                             "gemini", format, convertOk)]
    /\ UNCHANGED <<env, processingJobs, run, calls, files, browser>>

\* The ids a request can name: the jobs, an id that is never created and the
\* id that is not created yet
RequestIds == Jobs \cup {0, Len(processingJobs) + 1}

\* The server with its intake and status endpoints: uploads are accepted
\* while fewer than MaxJobs jobs exist and can be rejected at any time
NextHttp ==
    \/ \E upload \in UploadOutcomes, field \in {Absent, "false"} :
          /\ upload = "ok" => Len(processingJobs) < MaxJobs
          /\ ProcessImage(upload, field, TRUE)
    \/ \E upload \in UploadOutcomes, n \in 0..1 :
          /\ (upload = "ok" /\ n > 0) => Len(processingJobs) < MaxJobs
          /\ ProcessBatch(upload, n, Absent)
    \/ \E jobId \in Jobs, data \in BatchGeminiReplies : GeminiResponse(jobId, data)
    \/ \E jobId \in Jobs, ok \in BOOLEAN : GeminiPng(jobId, ok)
    \/ \E jobId \in Jobs, outcome \in {"url", "http"} : BgPost(jobId, outcome)
    \/ \E jobId \in Jobs, outcome \in {"ok", "http"} : BgGet(jobId, outcome)
    \/ \E jobId \in Jobs, ok \in BOOLEAN : BgPng(jobId, ok)
    \/ \E jobId \in Jobs, outcome \in {"url", "http"} : UpPost(jobId, outcome)
    \/ \E jobId \in Jobs, outcome \in {"ok", "http"} : UpGet(jobId, outcome)
    \/ \E jobId \in Jobs, ok \in BOOLEAN, unlinkOk \in BOOLEAN :
          UpPng(jobId, ok, unlinkOk)
    \/ \E jobId \in Jobs : TimerFires(jobId)
    \/ \E jobId \in RequestIds : GetJob(jobId)

SpecHttp == InitBatch /\ [][NextHttp]_vars

\* The server with its download endpoints, serving the files of one job
NextDownload ==
    \/ \E field \in {Absent, "false"} :
          /\ Len(processingJobs) = 0
          /\ ProcessImage("ok", field, TRUE)
    \/ \E jobId \in Jobs, data \in BatchGeminiReplies : GeminiResponse(jobId, data)
    \/ \E jobId \in Jobs, ok \in BOOLEAN : GeminiPng(jobId, ok)
    \/ \E jobId \in Jobs, outcome \in {"url", "http"} : BgPost(jobId, outcome)
    \/ \E jobId \in Jobs, outcome \in {"ok", "http"} : BgGet(jobId, outcome)
    \/ \E jobId \in Jobs, ok \in BOOLEAN : BgPng(jobId, ok)
    \/ \E jobId \in Jobs, outcome \in {"url", "http"} : UpPost(jobId, outcome)
    \/ \E jobId \in Jobs, outcome \in {"ok", "http"} : UpGet(jobId, outcome)
    \/ \E jobId \in Jobs, ok \in BOOLEAN, unlinkOk \in BOOLEAN :
          UpPng(jobId, ok, unlinkOk)
    \/ \E jobId \in Jobs : TimerFires(jobId)
    \/ \E jobId \in RequestIds, format \in FormatFields, convertOk \in BOOLEAN :
          Download(jobId, format, convertOk)
    \/ \E jobId \in RequestIds, format \in FormatFields, convertOk \in BOOLEAN :
          DownloadGemini(jobId, format, convertOk)

SpecDownload == InitBatch /\ [][NextDownload]_vars

\* ================================================ the client, script.js
\* One action is one task of the page: an event handler or a timer
\* callback or the settling of a fetch, with every continuation of an await
\* that it wakes. Of an image its status, its jobId and the state of its
\* Reprompt button are kept; the preview of the FileReader and the download
\* links write none of them. A jobId is known by the upload that got it.
clientCompletedStatuses ==
    {"complete", "pipeline_complete", "partial_pipeline_success",
     "picsart_failed_fallback"}

\* const maxAttempts = 60
maxAttempts == 60

\* The files of a drop or a selection
FileKinds == {"image", "not_image", "too_large"}

\* What a fetch of POST /api/process-image settles with
UploadAnswers == {"ok", "http_error", "network", "bad_json"}

\* The statuses a job of the server can have
ServerStatuses ==
    {"processing", "gemini_processing", "gemini_complete",
     "removing_background", "upscaling_image", "error"}
    \cup clientCompletedStatuses

\* What a fetch of GET /api/job/:jobId settles with: a failure or the
\* status of the job
PollFailures == {"http_error", "network", "bad_json"}
PollAnswers == PollFailures \cup ServerStatuses

\* addImage: the imageData pushed to this.images (createImageCard makes the
\* Reprompt button disabled)
NewImage == [status |-> "queued", jobId |-> NoJobId, reprompt |-> FALSE]

\* updateImageCard: the buttons follow the status
updateImageCard(imageData) ==
    [imageData EXCEPT !.reprompt = (imageData.status \in clientCompletedStatuses)]

\* The locals of a call of processAllImages ("all") or repromptImage
\* ("reprompt"): image is the position of the for loop (of the image, for a
\* reprompt), attempts the counter of pollJobStatus, polled how the promise
\* of the last pollJobStatus settled
NewClientRun(kind) ==
    [kind |-> kind, image |-> 0, pc |-> "start", attempts |-> 0,
     completedCount |-> 0, polled |-> "none"]

\* processImage up to its first await: the upload is sent
processImage(w, r, i) ==
    [w EXCEPT !.runs[r].image = i, !.runs[r].pc = "upload"]

\* The for loop of processAllImages from position i on, up to the next
\* await or to the end of the loop; w = [images, runs]
RECURSIVE ForOf(_, _, _)
ForOf(w, r, i) ==
    IF i > Len(w.images)
    THEN [w EXCEPT !.runs[r].image = i, !.runs[r].pc = "done"]
    ELSE IF w.images[i].status \in clientCompletedStatuses
    THEN ForOf([w EXCEPT !.runs[r].completedCount = @ + 1], r, i + 1)
    ELSE processImage(
            [w EXCEPT !.images[i] =
                         updateImageCard([@ EXCEPT !.status = "processing"])],
            r, i)

\* A rejection that leaves the status of the image as it is
Settled_KeepsStatus(w, r, ok) ==
    LET i == w.runs[r].image
        v == [w EXCEPT !.images[i] = updateImageCard(@)]
    IN IF w.runs[r].kind = "all"
       THEN ForOf([v EXCEPT !.runs[r].completedCount = @ + 1], r, i + 1)
       ELSE [v EXCEPT !.runs[r].pc = "done"]

\* The await of processImage is over in the caller: the catch sets 'error'
\* when it threw, the card is updated, and processAllImages counts the
\* image and goes on with the loop
Settled(w, r, ok) ==
    LET i == w.runs[r].image
        v == [w EXCEPT !.images[i] =
                 updateImageCard(IF ok THEN @ ELSE [@ EXCEPT !.status = "error"])]
    IN IF w.runs[r].kind = "all"
       THEN ForOf([v EXCEPT !.runs[r].completedCount = @ + 1], r, i + 1)
       ELSE [v EXCEPT !.runs[r].pc = "done"]

\* checkStatus up to its await: the attempt is counted, the status is fetched
checkStatus(w, r) ==
    [w EXCEPT !.runs[r].attempts = @ + 1, !.runs[r].pc = "poll"]

\* The upload of processImage has settled: it throws, or the jobId is
\* stored and pollJobStatus begins
UploadSettled(w, r, answer) ==
    IF answer # "ok"
    THEN Settled(w, r, FALSE)
    ELSE checkStatus([w EXCEPT
            !.images[w.runs[r].image].jobId =
                [run |-> r, image |-> w.runs[r].image],
            !.runs[r].attempts = 0,
            !.runs[r].polled = "pending"], r)

\* A poll that gives up only after one more attempt than maxAttempts
StatusFetched_OneMore(w, r, answer) ==
    LET i == w.runs[r].image
    IN IF answer \in PollFailures \/ answer = "error"
       THEN Settled([w EXCEPT !.runs[r].polled = "rejected"], r, FALSE)
       ELSE IF answer \in clientCompletedStatuses
       THEN Settled([w EXCEPT !.images[i].status = answer,
                              !.runs[r].polled = "resolved"], r, TRUE)
       ELSE LET v == [w EXCEPT !.images[i].status = answer]
            IN IF w.runs[r].attempts > maxAttempts
               THEN Settled([v EXCEPT !.runs[r].polled = "rejected"], r, FALSE)
               ELSE [v EXCEPT !.runs[r].pc = "wait"]

\* The status fetch of checkStatus has settled
StatusFetched(w, r, answer) ==
    LET i == w.runs[r].image
    IN IF answer \in PollFailures \/ answer = "error"
       THEN Settled([w EXCEPT !.runs[r].polled = "rejected"], r, FALSE)
       ELSE IF answer \in clientCompletedStatuses
       THEN Settled([w EXCEPT !.images[i].status = answer,
                              !.runs[r].polled = "resolved"], r, TRUE)
       ELSE LET v == [w EXCEPT !.images[i].status = answer]
            IN IF w.runs[r].attempts >= maxAttempts
               THEN Settled([v EXCEPT !.runs[r].polled = "rejected"], r, FALSE)
               ELSE [v EXCEPT !.runs[r].pc = "wait"]

Page == [images |-> images, runs |-> runs]

PageBecomes(w) ==
    /\ images' = w.images
    /\ runs' = w.runs

\* handleFiles with one file: a valid file is added
HandleFiles(file) ==
    /\ images' = IF file = "image" THEN Append(images, NewImage) ELSE images
    /\ UNCHANGED <<server, currentPrompt, runs, asyncPoll>>

\* The input event of the prompt field
PromptInput(value) ==
    /\ currentPrompt' = value
    /\ UNCHANGED <<server, images, runs, asyncPoll>>

\* A click on Process (the button is enabled when there are images and a
\* prompt): processAllImages up to its first await
ProcessClick ==
    /\ Len(images) > 0
    /\ currentPrompt # ""
    /\ PageBecomes(ForOf([Page EXCEPT !.runs = Append(@, NewClientRun("all"))],
                         Len(runs) + 1, 1))
    /\ UNCHANGED <<server, currentPrompt, asyncPoll>>

\* A click on Reprompt of an image (the button is enabled): repromptImage
\* up to its await; changed: the dialog gave a prompt that is not empty and
\* not the prompt of the image
RepromptClick(i, changed) ==
    /\ images[i].reprompt
    /\ IF changed
       THEN PageBecomes(processImage(
               [images |-> [images EXCEPT ![i] =
                               updateImageCard([@ EXCEPT !.status = "processing"])],
                runs |-> Append(runs, NewClientRun("reprompt"))],
               Len(runs) + 1, i))
       ELSE UNCHANGED <<images, runs>>
    /\ UNCHANGED <<server, currentPrompt, asyncPoll>>

\* The upload of a run settles
UploadAnswer(r, answer) ==
    /\ runs[r].pc = "upload"
    /\ runs[r].kind # "async"
    /\ PageBecomes(UploadSettled(Page, r, answer))
    /\ UNCHANGED <<server, currentPrompt, asyncPoll>>

\* The status fetch of a run settles
PollAnswer(r, answer) ==
    /\ runs[r].pc = "poll"
    /\ PageBecomes(StatusFetched(Page, r, answer))
    /\ UNCHANGED <<server, currentPrompt, asyncPoll>>

\* setTimeout(checkStatus, 5000) of a run fires
PollTimer(r) ==
    /\ runs[r].pc = "wait"
    /\ PageBecomes(checkStatus(Page, r))
    /\ UNCHANGED <<server, currentPrompt, asyncPoll>>

\* ---------------------------------------- the client, app-async.js
\* const maxRetries = 60
maxRetries == 60

\* The states at which pollJobStatus stops polling
completedStates == clientCompletedStatuses \cup {"error"}

\* What a status fetch settles with here: a failure, a 404, or a body with
\* or without ("") a status
AsyncPollAnswers == PollFailures \cup {"404", ""} \cup ServerStatuses

\* applyProcessingResult: imageData.status = result.status || 'complete'
applyProcessingResult(p, status) ==
    [p EXCEPT !.status = IF status = "" THEN "complete" ELSE status]

\* The catch of pollJobStatus: the image gets 'error', the error is rethrown
PollCaught(p) == [p EXCEPT !.pc = "rejected", !.status = "error"]

\* pollJobStatus(imageData, retries) after its fetch has settled
PollFetched(p, answer) ==
    IF answer \in PollFailures
    THEN PollCaught(p)
    ELSE IF answer = "404"
    THEN IF p.retries < 3 THEN [p EXCEPT !.pc = "retry"] ELSE PollCaught(p)
    ELSE LET q == applyProcessingResult(p, answer)
         IN IF answer \in completedStates
            THEN [q EXCEPT !.pc = "resolved"]
            ELSE IF p.retries < maxRetries
            THEN [q EXCEPT !.pc = "wait"]
            ELSE PollCaught(q)

\* pollJobStatus(imageData) is called: the first fetch is sent
StartAsyncPoll ==
    /\ asyncPoll.pc = "idle"
    /\ asyncPoll' = [asyncPoll EXCEPT !.pc = "fetch", !.fetches = 1]
    /\ UNCHANGED <<server, images, currentPrompt, runs>>

\* The fetch of pollJobStatus settles
AsyncPollAnswer(answer) ==
    /\ asyncPoll.pc = "fetch"
    /\ asyncPoll' = PollFetched(asyncPoll, answer)
    /\ UNCHANGED <<server, images, currentPrompt, runs>>

\* The timer of pollJobStatus (1 s after a 404, 5 s otherwise) fires:
\* pollJobStatus(imageData, retries + 1) sends the next fetch
AsyncPollTimer ==
    /\ asyncPoll.pc \in {"retry", "wait"}
    /\ asyncPoll' = [asyncPoll EXCEPT !.pc = "fetch", !.retries = @ + 1,
                                      !.fetches = @ + 1]
    /\ UNCHANGED <<server, images, currentPrompt, runs>>

\* ------------------------------------------- the client at work
\* The page of script.js under every order of the user's actions and of
\* the answers: at most MaxImages images, MaxRuns runs, and MaxPolls status
\* fetches of a run answered with a job in progress
NextClient ==
    \/ \E file \in FileKinds :
          /\ Len(images) < MaxImages
          /\ HandleFiles(file)
    \/ \E value \in {"", "prompt"} : PromptInput(value)
    \/ /\ Len(runs) < MaxRuns
       /\ ProcessClick
    \/ \E i \in DOMAIN images, changed \in BOOLEAN :
          /\ Len(runs) < MaxRuns
          /\ RepromptClick(i, changed)
    \/ \E r \in DOMAIN runs, answer \in {"ok", "http_error"} :
          UploadAnswer(r, answer)
    \/ \E r \in DOMAIN runs,
          answer \in {"network", "gemini_processing", "complete", "error"} :
          /\ answer = "gemini_processing" => runs[r].attempts < MaxPolls
          /\ PollAnswer(r, answer)
    \/ \E r \in DOMAIN runs : PollTimer(r)

SpecClient == InitBatch /\ [][NextClient]_vars

\* One polling loop of each client, with every answer at every attempt
NextPoll ==
    \/ /\ Len(images) = 0
       /\ asyncPoll.pc = "idle"
       /\ HandleFiles("image")
    \/ /\ currentPrompt = ""
       /\ PromptInput("prompt")
    \/ /\ Len(runs) = 0
       /\ ProcessClick
    \/ \E r \in DOMAIN runs, answer \in UploadAnswers : UploadAnswer(r, answer)
    \/ \E r \in DOMAIN runs, answer \in PollAnswers : PollAnswer(r, answer)
    \/ \E r \in DOMAIN runs : PollTimer(r)
    \/ /\ Len(images) = 0
       /\ StartAsyncPoll
    \/ \E answer \in AsyncPollAnswers : AsyncPollAnswer(answer)
    \/ AsyncPollTimer

SpecPoll == InitBatch /\ [][NextPoll]_vars

\* What POST /api/start-processing/:jobId answers with: a failure, or the
\* result of the pipeline, which the server sends when the job has ended
\* ("": a result without a status)
StartProcessingAnswers == PollFailures \cup completedStates \cup {""}

\* app-async.js, the for loop of processAllImages from position i on: every
\* image is processed, whatever its status
AsyncForOf(w, r, i) ==
    IF i > Len(w.images)
    THEN [w EXCEPT !.runs[r].image = i, !.runs[r].pc = "done"]
    ELSE processImage([w EXCEPT !.images[i].status = "processing"], r, i)

\* app-async.js, the await of processImage is over in processAllImages
AsyncSettled(w, r, ok) ==
    LET i == w.runs[r].image
        v == IF ok THEN w ELSE [w EXCEPT !.images[i].status = "error"]
    IN AsyncForOf([v EXCEPT !.runs[r].completedCount = @ + 1], r, i + 1)

\* app-async.js, a click on Process (enabled when there are images):
\* processAllImages up to its first await
AsyncProcessClick ==
    /\ Len(images) > 0
    /\ PageBecomes(AsyncForOf([Page EXCEPT !.runs = Append(@, NewClientRun("async"))],
                              Len(runs) + 1, 1))
    /\ UNCHANGED <<server, currentPrompt, asyncPoll>>

\* app-async.js, the upload of processImage settles: it throws, or the
\* jobId is stored and the processing request is sent
AsyncUploadAnswer(r, answer) ==
    /\ runs[r].pc = "upload"
    /\ runs[r].kind = "async"
    /\ PageBecomes(
          IF answer # "ok"
          THEN AsyncSettled(Page, r, FALSE)
          ELSE [Page EXCEPT
                  !.images[runs[r].image] =
                      [@ EXCEPT !.jobId = [run |-> r, image |-> runs[r].image],
                                !.status = "processing"],
                  !.runs[r].pc = "process"])
    /\ UNCHANGED <<server, currentPrompt, asyncPoll>>

\* app-async.js, the processing request settles: it throws, or
\* applyProcessingResult takes the status of the result
StartProcessingAnswer(r, answer) ==
    /\ runs[r].pc = "process"
    /\ PageBecomes(
          IF answer \in PollFailures
          THEN AsyncSettled(Page, r, FALSE)
          ELSE AsyncSettled(
                  [Page EXCEPT !.images[runs[r].image].status =
                                   IF answer = "" THEN "complete" ELSE answer],
                  r, TRUE))
    /\ UNCHANGED <<server, currentPrompt, asyncPoll>>

\* One run of processAllImages, of script.js or of app-async.js, with every
\* answer at every attempt, while images are added
NextOneRun ==
    \/ \E file \in FileKinds :
          /\ Len(images) < MaxImages
          /\ HandleFiles(file)
    \/ \E value \in {"", "prompt"} : PromptInput(value)
    \/ /\ Len(runs) = 0
       /\ ProcessClick
    \/ /\ Len(runs) = 0
       /\ AsyncProcessClick
    \/ \E r \in DOMAIN runs, answer \in UploadAnswers : UploadAnswer(r, answer)
    \/ \E r \in DOMAIN runs, answer \in PollAnswers : PollAnswer(r, answer)
    \/ \E r \in DOMAIN runs : PollTimer(r)
    \/ \E r \in DOMAIN runs, answer \in UploadAnswers : AsyncUploadAnswer(r, answer)
    \/ \E r \in DOMAIN runs, answer \in StartProcessingAnswers :
          StartProcessingAnswer(r, answer)

SpecOneRun == InitBatch /\ [][NextOneRun]_vars

\* ======================================================= properties
\* The calls of one stage that a job has made
CallsOf(jobId, api) ==
    {i \in 1..Len(calls[jobId]) : calls[jobId][i].api = api}

StageAttempted(jobId, api) == CallsOf(jobId, api) # {}

StageSucceeded(jobId, api) ==
    \E i \in CallsOf(jobId, api) : calls[jobId][i].result = "ok"

StageFailed(jobId, api) ==
    \E i \in CallsOf(jobId, api) : calls[jobId][i].result = "failed"

\* The input that the upscaling call of a job received
UpscaleInputIs(jobId, path) ==
    \A i \in CallsOf(jobId, "upscale") : calls[jobId][i].input = path

\* The number of optional stages of a job that failed
FailedOptionalStages(jobId) ==
    (IF StageFailed(jobId, "removebg") THEN 1 ELSE 0)
    + (IF StageFailed(jobId, "upscale") THEN 1 ELSE 0)

\* The pipeline run has returned and won the race against the timer
RunFinished(jobId) ==
    run[jobId].pc = "returned" /\ run[jobId].race = "resolved"

\* C1: once the run of a job has finished without a fatal error, the status
\* of the job record (and of the status response) is pipeline_complete when
\* no optional stage failed, partial_pipeline_success when one failed and
\* picsart_failed_fallback when both failed.
C1_FinalStatusCountsFailedStages ==
    \A jobId \in Jobs :
        RunFinished(jobId) =>
            LET expected ==
                  CASE FailedOptionalStages(jobId) = 0 -> "pipeline_complete"
                    [] FailedOptionalStages(jobId) = 1 -> "partial_pipeline_success"
                    [] OTHER -> "picsart_failed_fallback"
            IN /\ processingJobs[jobId].status = expected
               /\ JobStatusResponse(jobId).status = expected

\* The place of a status in the sequence processing/gemini_processing ->
\* gemini_complete -> removing_background -> upscaling_image -> terminal
StatusRank(status) ==
    CASE status \in {"processing", "gemini_processing"} -> 1
      [] status = "gemini_complete" -> 2
      [] status = "removing_background" -> 3
      [] status = "upscaling_image" -> 4
      [] OTHER -> 5

\* C2: no update of a job's status replaces it by a status that precedes it
\* in the sequence, also when the job timer fires while a stage is in
\* flight.
C2_StatusNeverMovesBackward ==
    \A jobId \in Jobs :
        LET log == processingJobs[jobId].statusLog
        IN \A i \in 1..(Len(log) - 1) :
              StatusRank(log[i]) <= StatusRank(log[i + 1])

TerminalStatuses == completedStatuses \cup {"error"}

\* C3: once the status of a job is terminal nothing changes what a status
\* query answers: status, processedUrl, geminiUrl and error stay the same.
C3_TerminalJobIsFrozen ==
    [][\A jobId \in Jobs :
          processingJobs[jobId].status \in TerminalStatuses =>
              JobStatusResponse(jobId)' = JobStatusResponse(jobId)]_vars

\* The generation stage of the job has failed: the call was rejected, or
\* returned no candidate, or a first candidate without an image part
GenerationFailed(jobId) ==
    LET data == run[jobId].data
    IN \/ data.kind = "reject"
       \/ /\ data.kind = "response"
          /\ \/ Len(data.candidates) = 0
             \/ \A i \in 1..Len(data.candidates[1]) :
                   data.candidates[1][i] # "image"

NothingToDownload(jobId) ==
    /\ ~JobStatusResponse(jobId).processedUrl
    /\ DownloadResponse(jobId).code = 404

\* C4: a job whose generation stage fails has status 'error', and neither
\* while its generation call is in flight nor after the failure does a
\* status response carry processedUrl or the download endpoint serve a file.
C4_FailedGenerationEndsInError ==
    \A jobId \in Jobs :
        /\ run[jobId].pc = "gemini_post" => NothingToDownload(jobId)
        /\ GenerationFailed(jobId) =>
              /\ processingJobs[jobId].status = "error"
              /\ JobStatusResponse(jobId).status = "error"
              /\ NothingToDownload(jobId)

\* A refusal: the first candidate holds only text while the second one holds
\* an image, and the job is in error
C4_Witness ==
    \E jobId \in Jobs :
        /\ run[jobId].data.kind = "response"
        /\ run[jobId].data.candidates = << <<"text">>, <<"image">> >>
        /\ run[jobId].pc = "threw"
        /\ processingJobs[jobId].status = "error"

\* The output of the most recent stage of the job that succeeded
LatestSuccessfulOutput(jobId) ==
    IF StageSucceeded(jobId, "upscale")
    THEN UpscaledOutputPath(
           calls[jobId][CHOOSE i \in CallsOf(jobId, "upscale") : TRUE].input)
    ELSE IF StageSucceeded(jobId, "removebg")
    THEN BgRemovedOutputPath(GeminiPath(jobId))
    ELSE GeminiPath(jobId)

\* C5: at the end of a run without fatal error the final artifact
\* (processedPath) is the output of the most recent stage that succeeded:
\* upscaled, else background-removed, else generated.
C5_FinalArtifactIsLatestSuccess ==
    \A jobId \in Jobs :
        RunFinished(jobId) =>
            processingJobs[jobId].processedPath = LatestSuccessfulOutput(jobId)

\* C6: when background removal is attempted and fails and upscaling
\* succeeds, upscaling received the generated output, the final status is
\* partial_pipeline_success, pipelineErrors is one "Background removal"
\* entry and the final artifact is the upscaled output.
C6_BgFailureThenUpscale ==
    \A jobId \in Jobs :
        (/\ RunFinished(jobId)
         /\ StageFailed(jobId, "removebg")
         /\ StageSucceeded(jobId, "upscale")) =>
            /\ UpscaleInputIs(jobId, GeminiPath(jobId))
            /\ processingJobs[jobId].status = "partial_pipeline_success"
            /\ Len(processingJobs[jobId].pipelineErrors) = 1
            /\ processingJobs[jobId].pipelineErrors[1].stage = "Background removal"
            /\ processingJobs[jobId].processedPath
                  = UpscaledOutputPath(GeminiPath(jobId))

\* C7: when background removal and upscaling are both attempted and fail,
\* the final status is picsart_failed_fallback, pipelineErrors has two
\* entries and the final artifact is the generated output.
C7_BothOptionalStagesFail ==
    \A jobId \in Jobs :
        (/\ RunFinished(jobId)
         /\ StageFailed(jobId, "removebg")
         /\ StageFailed(jobId, "upscale")) =>
            /\ processingJobs[jobId].status = "picsart_failed_fallback"
            /\ Len(processingJobs[jobId].pipelineErrors) = 2
            /\ processingJobs[jobId].processedPath = GeminiPath(jobId)

\* An entry of the given stage is among the errors
HasErrorOf(errors, stage) ==
    \E i \in 1..Len(errors) : errors[i].stage = stage

\* C8: a job created with removeBg false never enters removing_background,
\* never calls background removal, records no error for that stage, and its
\* upscaling receives the generated output; if upscaling succeeds the final
\* status is the fully-enhanced one (pipeline_complete) with no
\* pipelineErrors.
C8_BackgroundRemovalDisabled ==
    \A jobId \in Jobs :
        ~processingJobs[jobId].removeBg =>
            /\ \A i \in 1..Len(processingJobs[jobId].statusLog) :
                  processingJobs[jobId].statusLog[i] # "removing_background"
            /\ ~StageAttempted(jobId, "removebg")
            /\ ~HasErrorOf(run[jobId].pipelineErrors, "Background removal")
            /\ ~HasErrorOf(processingJobs[jobId].pipelineErrors, "Background removal")
            /\ UpscaleInputIs(jobId, GeminiPath(jobId))
            /\ (RunFinished(jobId) /\ StageSucceeded(jobId, "upscale")) =>
                  /\ processingJobs[jobId].status = "pipeline_complete"
                  /\ Len(processingJobs[jobId].pipelineErrors) = 0

\* C9: a failed background-removal or upscaling call never makes the
\* pipeline run throw and never puts the job into 'error' (only the timer
\* does): the failure is recorded under its stage, after a failed background
\* removal the run is in or past the upscaling step, and after a failed
\* upscaling the run has returned with a completed status.
C9_OptionalFailureIsRecoverable ==
    \A jobId \in Jobs :
        /\ StageFailed(jobId, "removebg") =>
              /\ run[jobId].pc \in {"up_post", "up_get", "up_png", "returned"}
              /\ HasErrorOf(run[jobId].pipelineErrors, "Background removal")
        /\ StageFailed(jobId, "upscale") =>
              /\ run[jobId].pc = "returned"
              /\ HasErrorOf(run[jobId].pipelineErrors, "Upscaling")
              /\ processingJobs[jobId].status \in completedStatuses
        /\ (StageFailed(jobId, "removebg") \/ StageFailed(jobId, "upscale")) =>
              /\ run[jobId].pc # "threw"
              /\ processingJobs[jobId].status = "error" =>
                    run[jobId].timer = "fired"

\* Both optional stages failed, the timer never fired, the job is complete
C9_Witness ==
    \E jobId \in Jobs :
        /\ StageFailed(jobId, "removebg")
        /\ StageFailed(jobId, "upscale")
        /\ run[jobId].timer = "pending"
        /\ run[jobId].pc = "returned"
        /\ Len(processingJobs[jobId].pipelineErrors) = 2
        /\ processingJobs[jobId].status \in completedStatuses

\* The first place of a status in the log of a job, 0 when it is not there
FirstIndex(log, status) ==
    IF \E i \in 1..Len(log) : log[i] = status
    THEN CHOOSE i \in 1..Len(log) :
            /\ log[i] = status
            /\ \A k \in 1..(i - 1) : log[k] # status
    ELSE 0

\* C10: the status upscaling_image is set, and the upscaling call started,
\* only after background removal has completed, failed or been skipped:
\* then no background-removal call is pending, bgRemovedPath is decided, and
\* removing_background (if it occurs) precedes upscaling_image in the log.
C10_UpscalingAfterBackgroundRemoval ==
    \A jobId \in Jobs :
        LET log == processingJobs[jobId].statusLog
            started == \/ StageAttempted(jobId, "upscale")
                       \/ FirstIndex(log, "upscaling_image") # 0
        IN started =>
             /\ \A i \in CallsOf(jobId, "removebg") :
                   /\ calls[jobId][i].result # "pending"
                   /\ \A k \in CallsOf(jobId, "upscale") : i < k
             /\ run[jobId].bgRemovedPath # NoPath
             /\ StageAttempted(jobId, "removebg") =>
                   /\ FirstIndex(log, "removing_background") # 0
                   /\ FirstIndex(log, "removing_background")
                         < FirstIndex(log, "upscaling_image")

\* Upscaling is in flight after a background removal that succeeded
C10_Witness ==
    \E jobId \in Jobs :
        /\ run[jobId].pc = "up_post"
        /\ StageSucceeded(jobId, "removebg")
        /\ processingJobs[jobId].status = "upscaling_image"

\* C11: a job whose timer expired before its pipeline finished carries the
\* timeout message, and its status is 'error' then and in every later state.
C11_TimedOutJobStaysInError ==
    \A jobId \in Jobs :
        processingJobs[jobId].error = TimeoutMessage =>
            /\ run[jobId].timer = "fired"
            /\ processingJobs[jobId].status = "error"

\* C12: every external call is made with a timeout of its own that is
\* shorter than the job timer; a timed-out Gemini request puts the job into
\* 'error', and a failed optional call is recorded without error status.
C12_EveryCallHasItsOwnTimeout ==
    \A jobId \in Jobs :
        /\ \A i \in 1..Len(calls[jobId]) :
              /\ calls[jobId][i].timeout > 0
              /\ calls[jobId][i].timeout < JobTimeout
        /\ run[jobId].data.code = "ECONNABORTED" =>
              processingJobs[jobId].status = "error"
        /\ StageFailed(jobId, "removebg") =>
              HasErrorOf(run[jobId].pipelineErrors, "Background removal")
        /\ StageFailed(jobId, "upscale") =>
              processingJobs[jobId].status \in completedStatuses

\* The status has been written to the job at some time
HasBeen(jobId, status) ==
    \E i \in 1..Len(processingJobs[jobId].statusLog) :
        processingJobs[jobId].statusLog[i] = status

\* C13: from the moment a job has been gemini_complete, in every later state
\* its geminiDownloadPath is the generated file, the file exists, the status
\* response carries geminiUrl and the AI-only download serves the file.
C13_GeneratedOutputIsRetained ==
    \A jobId \in Jobs :
        HasBeen(jobId, "gemini_complete") =>
            /\ processingJobs[jobId].geminiDownloadPath = GeminiPath(jobId)
            /\ GeminiPath(jobId) \in files
            /\ JobStatusResponse(jobId).geminiUrl
            /\ DownloadGeminiResponse(jobId).code = 200
            /\ DownloadGeminiResponse(jobId).file = GeminiPath(jobId)

\* Upscaling succeeded on the generated file after a failed background
\* removal, the cleanup ran, and the generated file is still served
C13_Witness ==
    \E jobId \in Jobs :
        /\ StageFailed(jobId, "removebg")
        /\ RunFinished(jobId)
        /\ processingJobs[jobId].processedPath
              = UpscaledOutputPath(GeminiPath(jobId))
        /\ DownloadGeminiResponse(jobId).code = 200

\* C14: a job invokes each of the three external stage calls at most once.
C14_EachStageCalledAtMostOnce ==
    \A jobId \in Jobs :
        \A api \in {"gemini", "removebg", "upscale"} :
            Cardinality(CallsOf(jobId, api)) <= 1

\* Both optional stages failed and the timer fired, with one call each
C14_Witness ==
    \E jobId \in Jobs :
        /\ StageFailed(jobId, "removebg")
        /\ StageFailed(jobId, "upscale")
        /\ run[jobId].timer = "fired"
        /\ Len(calls[jobId]) = 3

\* A call of the stage is in flight
StagePending(jobId, api) ==
    \E i \in CallsOf(jobId, api) : calls[jobId][i].result = "pending"

\* C15 (as claimed): whenever the upscaling call is in flight, the job record
\* already reflects the outcome of background removal: a failure is present
\* as a pipelineErrors entry of the record.
C15_OutcomeCommittedToRecord ==
    \A jobId \in Jobs :
        (StagePending(jobId, "upscale") /\ StageFailed(jobId, "removebg")) =>
            HasErrorOf(processingJobs[jobId].pipelineErrors, "Background removal")

\* C15 (amended): a stage starts only after the preceding stage has settled.
\* When an optional call has been made, the generated output is committed to
\* the job record; whenever the upscaling call is in flight no
\* background-removal call is pending and a failure of background removal is
\* held in the run's own pipelineErrors list, the record's pipelineErrors
\* being written only with the final status.
C15_OutcomeSettledBeforeNextStage ==
    \A jobId \in Jobs :
        /\ (StageAttempted(jobId, "removebg") \/ StageAttempted(jobId, "upscale")) =>
              /\ ~StagePending(jobId, "gemini")
              /\ processingJobs[jobId].geminiDownloadPath = GeminiPath(jobId)
        /\ StagePending(jobId, "upscale") =>
              /\ ~StagePending(jobId, "removebg")
              /\ StageFailed(jobId, "removebg") =>
                    HasErrorOf(run[jobId].pipelineErrors, "Background removal")
              /\ processingJobs[jobId].pipelineErrors = <<>>

\* Upscaling is in flight after a failed background removal
C15_Witness ==
    \E jobId \in Jobs :
        /\ StagePending(jobId, "upscale")
        /\ StageFailed(jobId, "removebg")
        /\ run[jobId].pc = "up_get"

\* The jobs whose record a step changes
ChangedRecords == {jobId \in Jobs : processingJobs'[jobId] # processingJobs[jobId]}

\* C16: with several jobs in flight, under every interleaving of their stage
\* completions and timers, a step of the pipeline run of job A (a step that
\* moves A's run) changes no other job's record, run or calls, and no step
\* changes the records of two jobs.
C16_RunChangesOnlyItsOwnJob ==
    [][/\ \A a \in Jobs :
             run'[a] # run[a] =>
                 \A b \in Jobs \ {a} :
                     /\ processingJobs'[b] = processingJobs[b]
                     /\ run'[b] = run[b]
                     /\ calls'[b] = calls[b]
       /\ Cardinality(ChangedRecords) <= 1]_vars

\* Two jobs of one batch ended differently: one timed out while its
\* generation was pending, the other ran its pipeline to the end
C16_Witness ==
    \E a \in Jobs, b \in Jobs :
        /\ a < b
        /\ run[a].timer = "fired"
        /\ processingJobs[a].status = "error"
        /\ run[a].pc = "gemini_post"
        /\ RunFinished(b)
        /\ processingJobs[b].status = "complete"

\* An upload is rejected at intake: by the upload middleware or for want of
\* a file, at either intake endpoint
RejectedIntake ==
    \/ \E upload \in UploadOutcomes \ {"ok"}, field \in RemoveBgFields :
          ProcessImage(upload, field, TRUE)
    \/ \E upload \in UploadOutcomes \ {"ok"}, n \in 0..1 :
          ProcessBatch(upload, n, Absent)
    \/ ProcessBatch("ok", 0, Absent)

\* The answer of a step is a rejection of an intake endpoint
AnswersRejection ==
    /\ reply'.endpoint \in {"process-image", "process-batch"}
    /\ reply'.response.code \in {400, 413}
    /\ \/ reply'.endpoint # reply.endpoint
       \/ reply'.response.code # reply.response.code

\* C17: an upload that is rejected at intake (oversize or non-image file, or
\* no file present) is answered 400 or 413 and creates no job: the job store,
\* the runs, the external calls and the files are unchanged.
C17_RejectedUploadCreatesNoJob ==
    [][/\ RejectedIntake =>
             /\ reply'.response.code \in {400, 413}
             /\ UNCHANGED <<processingJobs, run, calls, files>>
       /\ AnswersRejection => UNCHANGED <<processingJobs, run, calls, files>>]_vars

\* An oversize upload was rejected while a job was in flight, and the job
\* is still the only one
C17_Witness ==
    /\ reply.endpoint = "process-image"
    /\ reply.response.code = 413
    /\ Len(processingJobs) = 1
    /\ run[1].pc = "up_post"

\* C18: the job store never evicts: a job that exists is there after every
\* step and the status query for it finds it; a status query for an id that
\* names no job answers 404, and no status query changes the store.
C18_StoreNeverEvicts ==
    [][/\ \A jobId \in Jobs :
             /\ jobId \in DOMAIN processingJobs'
             /\ JobStatusResponse(jobId)'.code = 200
       /\ \A jobId \in RequestIds :
             GetJob(jobId) =>
                 /\ reply'.response.code = IF jobId \in Jobs THEN 200 ELSE 404
                 /\ UNCHANGED <<processingJobs, run, calls, files>>]_vars

\* A status query for an id that names no job was answered 404 after the
\* job of the store had ended in error
C18_Witness ==
    /\ reply.endpoint = "job"
    /\ reply.response.code = 404
    /\ Len(processingJobs) = 1
    /\ processingJobs[1].status = "error"
    /\ JobStatusResponse(1).code = 200

C20_CompletedStatusHasArtifact ==
    \A jobId \in Jobs :
        JobStatusResponse(jobId).status \in completedStatuses =>
            /\ JobStatusResponse(jobId).processedUrl
            /\ DownloadResponse(jobId).error # "Processed image not found"

\* The deletion of the background-removed intermediate file threw in the
\* run of the job
UnlinkThrew(jobId) ==
    \E i \in 1..Len(run[jobId].pipelineErrors) :
        run[jobId].pipelineErrors[i].message = <<"unlink failed">>

\* C21: an exception of the orchestrator's own bookkeeping (here: the
\* deletion of the background-removed intermediate file) is fatal: the job
\* is in status 'error' and has no completed status.
C21_BookkeepingExceptionIsFatal ==
    \A jobId \in Jobs :
        UnlinkThrew(jobId) =>
            /\ processingJobs[jobId].status = "error"
            /\ processingJobs[jobId].status \notin completedStatuses
            /\ run[jobId].pc = "threw"

\* The first list is a prefix of the second
IsPrefix(old, new) ==
    /\ Len(old) <= Len(new)
    /\ \A i \in 1..Len(old) : new[i] = old[i]

\* The entries of a list of pipeline errors are in the order of the stages:
\* no "Upscaling" entry precedes a "Background removal" entry, and no stage
\* has two entries
StagesInOrder(errors) ==
    \A i \in 1..Len(errors) : \A j \in (i + 1)..Len(errors) :
        errors[i].stage = "Background removal" /\ errors[j].stage = "Upscaling"

\* C22: a job's pipelineErrors is append-only and ordered. After every step,
\* the list of the run has an entry of a stage exactly when that optional
\* stage has failed, its entries are in the order of the stages, it has at
\* most 2 entries and it extends the list it was before the step; the list
\* of the job record is only ever extended and is a prefix of the run's.
C22_PipelineErrorsAppendOnly ==
    [][\A jobId \in Jobs :
          LET old == run[jobId].pipelineErrors
              new == run'[jobId].pipelineErrors
          IN /\ IsPrefix(old, new)
             /\ IsPrefix(processingJobs[jobId].pipelineErrors,
                         processingJobs'[jobId].pipelineErrors)
             /\ IsPrefix(processingJobs'[jobId].pipelineErrors, new)
             /\ Len(new) <= 2
             /\ StagesInOrder(new)
             /\ HasErrorOf(new, "Background removal")
                   <=> StageFailed(jobId, "removebg")'
             /\ HasErrorOf(new, "Upscaling")
                   <=> StageFailed(jobId, "upscale")']_vars

\* The background-removed intermediate file of the job
IntermediatePath(jobId) == BgRemovedOutputPath(GeminiPath(jobId))

\* C23: the background-removed intermediate file, once written, is gone only
\* when upscaling has succeeded and the final artifact is the upscaled
\* output; the file a completed job names as its final artifact exists; and
\* when upscaling has failed after a successful background removal the final
\* artifact is the background-removed output, which still exists.
C23_IntermediateDeletedOnlyAfterUpscaling ==
    \A jobId \in Jobs :
        /\ (StageSucceeded(jobId, "removebg") /\ IntermediatePath(jobId) \notin files) =>
              /\ StageSucceeded(jobId, "upscale")
              /\ run[jobId].finalProcessedPath
                    = UpscaledOutputPath(IntermediatePath(jobId))
              /\ run[jobId].finalProcessedPath \in files
        /\ (processingJobs[jobId].status \in completedStatuses
            /\ processingJobs[jobId].processedPath # NoPath) =>
              /\ processingJobs[jobId].processedPath \in files
              /\ DownloadResponse(jobId).code = 200
        /\ (StageSucceeded(jobId, "removebg") /\ StageFailed(jobId, "upscale")) =>
              /\ run[jobId].finalProcessedPath = IntermediatePath(jobId)
              /\ IntermediatePath(jobId) \in files
              /\ RunFinished(jobId) =>
                    processingJobs[jobId].processedPath = IntermediatePath(jobId)

\* Upscaling failed after a successful background removal and the job serves
\* the background-removed file
C23_Witness ==
    \E jobId \in Jobs :
        /\ StageSucceeded(jobId, "removebg")
        /\ StageFailed(jobId, "upscale")
        /\ RunFinished(jobId)
        /\ DownloadResponse(jobId).file = IntermediatePath(jobId)

\* The job exists, its status is a completed one and its processedPath is set
HasFinalArtifact(jobId) ==
    /\ jobId \in Jobs
    /\ processingJobs[jobId].status \in completedStatuses
    /\ processingJobs[jobId].processedPath # NoPath

\* C24: GET /api/download/:jobId answers 200 only for a job that exists,
\* whose status is a completed one and whose processedPath is set, and then
\* serves that file; for any other id or job (in progress, in status
\* 'error') it answers 404 and serves nothing; it changes no job.
C24_DownloadOnlyOfFinalArtifact ==
    [][\A jobId \in RequestIds, format \in FormatFields, convertOk \in BOOLEAN :
          Download(jobId, format, convertOk) =>
              /\ reply'.response.code \in {200, 404}
              /\ reply'.response.code = 200 =>
                    /\ HasFinalArtifact(jobId)
                    /\ reply'.response.file = processingJobs[jobId].processedPath
                    /\ reply'.response.file \in files
              /\ ~HasFinalArtifact(jobId) =>
                    /\ reply'.response.code = 404
                    /\ reply'.response.file = NoPath
              /\ UNCHANGED <<processingJobs, run, calls, files>>]_vars

\* The upscaled final artifact of a complete job was served
C24_Witness ==
    /\ reply.endpoint = "download"
    /\ reply.response.code = 200
    /\ Len(processingJobs) = 1
    /\ processingJobs[1].status = "complete"
    /\ reply.response.file = processingJobs[1].processedPath
    /\ reply.response.file = UpscaledOutputPath(GeminiPath(1))

\* A step is the download request of either endpoint for an image that is
\* there to be sent
SendsImage(jobId, format, convertOk) ==
    \/ Download(jobId, format, convertOk) /\ DownloadResponse(jobId).code = 200
    \/ DownloadGemini(jobId, format, convertOk)
          /\ DownloadGeminiResponse(jobId).code = 200

\* The file name prefix of the attachment of the endpoint that answered
AttachmentPrefix == IF reply'.endpoint = "download" THEN "processed" ELSE "gemini"

\* C25 (as claimed): for a format of the set {png, jpg, jpeg}, in any case of
\* letters, a download either returns the re-encoded image (image/png and
\* extension png for png; image/jpeg and extension jpg for jpg and jpeg) or
\* the request fails with an error.
C25_ConvertsOrFails ==
    [][\A jobId \in Jobs, convertOk \in BOOLEAN,
          format \in {"png", "PNG", "jpg", "JPG", "jpeg"} :
          SendsImage(jobId, format, convertOk) =>
              \/ reply'.response.code >= 400
              \/ /\ reply'.response.converted
                 /\ reply'.response.contentType
                       = IF format \in {"png", "PNG"} THEN "image/png"
                         ELSE "image/jpeg"]_vars

\* C25 (amended): the format is taken from {png, jpg, jpeg} in any case of
\* letters. A format outside the set (or none) yields the stored file as it
\* is, inline. For a format of the set the image is re-encoded: png yields
\* image/png and extension png, jpg and jpeg yield image/jpeg and extension
\* jpg; when the converter throws the request does not fail: the stored PNG
\* file is sent unconverted as an attachment with extension png.
C25_FormatOfDownload ==
    [][\A jobId \in Jobs, convertOk \in BOOLEAN, format \in FormatFields :
          SendsImage(jobId, format, convertOk) =>
              /\ reply'.response.code = 200
              /\ reply'.response.file
                    = IF reply'.endpoint = "download"
                      THEN processingJobs[jobId].processedPath
                      ELSE processingJobs[jobId].geminiDownloadPath
              /\ format \in {Absent, "", "gif"} =>
                    /\ ~reply'.response.converted
                    /\ reply'.response.attachment = <<>>
              /\ (format \in {"png", "PNG"} /\ convertOk) =>
                    /\ reply'.response.converted
                    /\ reply'.response.contentType = "image/png"
                    /\ reply'.response.attachment = <<AttachmentPrefix, "png">>
              /\ (format \in {"jpg", "JPG", "jpeg"} /\ convertOk) =>
                    /\ reply'.response.converted
                    /\ reply'.response.contentType = "image/jpeg"
                    /\ reply'.response.attachment = <<AttachmentPrefix, "jpg">>
              /\ (format \in {"png", "PNG", "jpg", "JPG", "jpeg"} /\ ~convertOk) =>
                    /\ ~reply'.response.converted
                    /\ reply'.response.contentType = "image/png"
                    /\ reply'.response.attachment = <<AttachmentPrefix, "png">>]_vars

\* The conversion of the final artifact threw and the stored file was sent
\* as an attachment
C25_Witness ==
    /\ reply.endpoint = "download"
    /\ reply.response.code = 200
    /\ ~reply.response.converted
    /\ reply.response.attachment = <<"processed", "png">>
    /\ reply.response.file \in files

\* C26: the removeBg flag of a job is fixed at creation: it is true iff the
\* request field removeBg is 'true' in any case of letters, or the field is
\* absent or empty and ENABLE_BG_REMOVAL is on; no later step changes it.
C26_RemoveBgFixedAtCreation ==
    [][/\ \A field \in RemoveBgFields, readOk \in BOOLEAN :
             ProcessImage("ok", field, readOk) =>
                 processingJobs'[Len(processingJobs')].removeBg
                     = (\/ field \in {"true", "TRUE"}
                        \/ field \in {Absent, ""} /\ ENABLE_BG_REMOVAL)
       /\ \A jobId \in Jobs :
             processingJobs'[jobId].removeBg = processingJobs[jobId].removeBg]_vars

\* With ENABLE_BG_REMOVAL on, a job that was created without background
\* removal has been through its whole pipeline without it
C26_Witness ==
    /\ ENABLE_BG_REMOVAL
    /\ PICSART_API_KEY
    /\ \E jobId \in Jobs :
          /\ ~processingJobs[jobId].removeBg
          /\ RunFinished(jobId)
          /\ StageSucceeded(jobId, "upscale")
          /\ ~StageAttempted(jobId, "removebg")

C28_EveryMutationIsAnUpdate ==
    \A jobId \in Jobs :
        processingJobs[jobId].lastUpdated
            = Len(processingJobs[jobId].statusLog)

\* The stored error of the job is the message of a refusal
IsRefusal(message) ==
    /\ Len(message) = 4
    /\ message[2] = "Image generation failed. Gemini response: "

\* C29: when the generation returns only text, the stored error quotes the
\* first 200 characters of the joined text at most (all of it when it is
\* shorter); the status response of a job in 'error' returns the stored
\* message as it is, and a response has an error field only in status
\* 'error'.
C29_RefusalIsTruncated ==
    \A jobId \in Jobs :
        LET job == processingJobs[jobId]
            data == run[jobId].data
        IN /\ IsRefusal(job.error) =>
                 /\ job.error[3] <= 200
                 /\ data.kind = "response"
                 /\ job.error[3] = IF JoinedLength(textParts(data.candidates[1])) <= 200
                                   THEN JoinedLength(textParts(data.candidates[1]))
                                   ELSE 200
           /\ job.status = "error" =>
                 /\ JobStatusResponse(jobId).error = job.error
                 /\ job.error # NoMessage
           /\ job.status # "error" => JobStatusResponse(jobId).error = NoMessage

\* A refusal of two text parts, longer than 200 characters when joined, was
\* cut to 200 and is what the status response returns
C29_Witness ==
    \E jobId \in Jobs :
        /\ run[jobId].data.kind = "response"
        /\ run[jobId].data.candidates = << <<"text", "text">> >>
        /\ processingJobs[jobId].status = "error"
        /\ IsRefusal(JobStatusResponse(jobId).error)
        /\ JobStatusResponse(jobId).error[3] = 200
        /\ JoinedLength(<<"text", "text">>) > 200

RunSettled(jobId) == run[jobId].pc \in {"returned", "threw"}

\* C31: the timer of a job is never cancelled (it stays pending until it
\* fires), and when it fires after the pipeline run of the job has settled
\* the record of the job, its calls and the files are left as they were.
C31_LateTimerChangesNothing ==
    [][\A jobId \in Jobs :
          /\ (run[jobId].timer = "pending" /\ run'[jobId].timer # "pending")
                => TimerFires(jobId)
          /\ (TimerFires(jobId) /\ RunSettled(jobId))
                => /\ processingJobs' = processingJobs
                   /\ calls' = calls
                   /\ files' = files
                   /\ run'[jobId] = [run[jobId] EXCEPT !.timer = "fired"]]_vars

\* The timer has fired on a job whose run had won the race with a result
C31_Witness ==
    \E jobId \in Jobs :
        /\ run[jobId].timer = "fired"
        /\ run[jobId].race = "resolved"
        /\ processingJobs[jobId].status = "complete"
        /\ processingJobs[jobId].error = NoMessage

\* The timer of the job fired while its run was in progress and forced the
\* job into status 'error'
TimedOut(jobId) ==
    /\ run[jobId].timer = "fired"
    /\ run[jobId].race = "rejected"
    /\ processingJobs[jobId].error = TimeoutMessage

\* C32: after the timer has forced a job into 'error', the abandoned run of
\* the job starts no further external call and writes no further status.
C32_AbandonedRunIsInert ==
    [][\A jobId \in Jobs :
          TimedOut(jobId) =>
              /\ Len(calls'[jobId]) = Len(calls[jobId])
              /\ processingJobs'[jobId].statusLog
                    = processingJobs[jobId].statusLog]_vars

\* Step 1 of the job does not call background removal
BgRemovalNotAttempted(jobId) ==
    ~(processingJobs[jobId].removeBg /\ PICSART_API_KEY)

\* C33: a job for which background removal is not attempted never has more
\* than one pipelineErrors entry and never gets 'picsart_failed_fallback';
\* when its upscaling failed and its run has finished, its status is
\* 'partial_pipeline_success' and its final artifact is the generated file.
C33_NoBgRemovalAtMostOneError ==
    \A jobId \in Jobs :
        BgRemovalNotAttempted(jobId) =>
            /\ Len(run[jobId].pipelineErrors) <= 1
            /\ Len(processingJobs[jobId].pipelineErrors) <= 1
            /\ ~HasBeen(jobId, "picsart_failed_fallback")
            /\ (StageFailed(jobId, "upscale") /\ RunFinished(jobId)) =>
                  /\ processingJobs[jobId].status = "partial_pipeline_success"
                  /\ processingJobs[jobId].processedPath = GeminiPath(jobId)

\* The first candidate of the response holds an inline image part
FirstCandidateHasImage(data) ==
    /\ data.kind = "response"
    /\ Len(data.candidates) > 0
    /\ Len(imageParts(data.candidates[1])) > 0

\* The job has succeeded at generation: the generated image is stored
GenerationSucceeded(jobId) ==
    /\ HasBeen(jobId, "gemini_complete")
    /\ GeminiPath(jobId) \in files

\* C34 as stated: once the Gemini request of a job has been answered with a
\* response, the job has not failed fatally iff the first candidate of the
\* response holds an image part.
C34_SucceedsIffFirstCandidateHasImage ==
    \A jobId \in Jobs :
        run[jobId].data.kind = "response" =>
            (FirstCandidateHasImage(run[jobId].data) <=> run[jobId].pc # "threw")

\* C34: only the first candidate of the response is inspected. A response
\* whose first candidate has no image part is fatal, whatever the later
\* candidates hold; one whose first candidate has an image part takes the
\* first such part to the PNG conversion; the job succeeds at generation
\* only from there, when the conversion succeeds, and fails fatally when
\* the conversion throws.
C34_FirstCandidateOnly ==
    [][\A jobId \in Jobs :
          /\ (/\ run[jobId].pc = "gemini_post"
              /\ run'[jobId].pc # "gemini_post"
              /\ run'[jobId].data.kind = "response")
                => LET data == run'[jobId].data
                   IN IF FirstCandidateHasImage(data)
                      THEN /\ run'[jobId].pc = "gemini_png"
                           /\ run'[jobId].generatedImageData
                                 = FirstImagePart(data.candidates[1])
                           /\ ~GenerationSucceeded(jobId)'
                      ELSE /\ run'[jobId].pc = "threw"
                           /\ processingJobs'[jobId].status = "error"
                           /\ ~GenerationSucceeded(jobId)'
          /\ (run[jobId].pc = "gemini_png" /\ run'[jobId].pc # "gemini_png")
                => \/ GenerationSucceeded(jobId)'
                   \/ /\ run'[jobId].pc = "threw"
                      /\ processingJobs'[jobId].status = "error"
                      /\ ~GenerationSucceeded(jobId)'
          /\ (~GenerationSucceeded(jobId) /\ GenerationSucceeded(jobId)')
                => run[jobId].pc = "gemini_png"]_vars

\* The image part taken is the second part of the first candidate, and the
\* response has a second candidate
C34_Witness ==
    \E jobId \in Jobs :
        /\ run[jobId].pc = "gemini_png"
        /\ run[jobId].data.candidates = << <<"text", "image">>, <<"image">> >>
        /\ run[jobId].generatedImageData = 2

\* The runs of the page whose processImage for the image is in flight:
\* the upload is sent or its status is being polled
InFlight(i) ==
    {r \in DOMAIN runs : /\ runs[r].image = i
                         /\ runs[r].pc \in {"upload", "poll", "wait"}}

\* C35: in the polling client, whatever the user does, at most one
\* processImage run is in flight for an image at any time.
C35_OneRequestPerImage ==
    \A i \in DOMAIN images : Cardinality(InFlight(i)) <= 1

\* The statuses of a job that is still in progress
InProgressStatuses == ServerStatuses \ completedStates

\* C36: pollJobStatus settles within its budget of status fetches, whatever
\* the server answers. script.js: never more than maxAttempts fetches; an
\* answer resolves the poll iff it carries a completed status; 'error', a
\* failed fetch and an answer 'in progress' to the last attempt reject it;
\* any other answer leaves it waiting for the next attempt. app-async.js:
\* never more than maxRetries + 1 fetches; an answer resolves the poll iff
\* it carries a completed status or 'error'; a failed fetch and an answer
\* 'in progress' to the last attempt reject it.
C36_PollSettlesWithinBudget ==
    [][/\ \A r \in DOMAIN runs :
             /\ runs'[r].attempts <= maxAttempts
             /\ \A answer \in PollAnswers :
                   PollAnswer(r, answer) =>
                      /\ runs'[r].polled = "resolved"
                            <=> answer \in clientCompletedStatuses
                      /\ runs'[r].polled = "rejected"
                            <=> \/ answer \in PollFailures \cup {"error"}
                                \/ /\ answer \in InProgressStatuses
                                   /\ runs[r].attempts = maxAttempts
                      /\ runs'[r].polled = "pending"
                            => /\ runs'[r].pc = "wait"
                               /\ runs[r].attempts < maxAttempts
       /\ asyncPoll'.fetches <= maxRetries + 1
       /\ \A answer \in AsyncPollAnswers :
             AsyncPollAnswer(answer) =>
                /\ asyncPoll'.pc = "resolved" <=> answer \in completedStates
                /\ answer \in {"network", "bad_json"}
                      => asyncPoll'.pc = "rejected"
                /\ (/\ answer \in InProgressStatuses \cup {""}
                    /\ asyncPoll.retries = maxRetries)
                      => asyncPoll'.pc = "rejected"
                /\ asyncPoll'.pc \in {"resolved", "rejected", "retry", "wait"}
                /\ asyncPoll'.pc \in {"retry", "wait"}
                      => asyncPoll.retries < maxRetries]_vars

\* The last attempt of a poll of script.js was answered with a job in
\* progress: the poll is rejected and the image is in 'error'
C36_Witness ==
    \E r \in DOMAIN runs :
        /\ runs[r].attempts = maxAttempts
        /\ runs[r].polled = "rejected"
        /\ runs[r].pc = "done"
        /\ images[1].status = "error"

====
